---- MODULE Spec2Model ----
(***************************************************************************)
(* Model of samsa's encode side of the wire protocol (src/src/encode.rs).  *)
(*                                                                         *)
(* The buffer is a sequence of bytes (0..255).  Every integer of the       *)
(* program is held at its own width as a vector of bits, a function        *)
(* [0..w-1 -> {0,1}] with bit 0 the least significant one, so that u32,    *)
(* i64 and usize values keep all their bits.  A slice is held as its       *)
(* length (a usize) and its elements: an explicit head followed by one     *)
(* repeated element, which is how vec![b'a'; n] builds its contents.       *)
(*                                                                         *)
(* before, op, arg, result and calls record the last call: the buffer it   *)
(* was given, the operation, the value encoded (under its type), what it   *)
(* returned and the invocations of the element closure it made.            *)
(***************************************************************************)
EXTENDS Integers, Sequences, FiniteSets, TLC

VARIABLES buffer, before, op, arg, result, calls

vars == <<buffer, before, op, arg, result, calls>>

\* The caller appends fields until the buffer holds more than MaxBuf bytes.
MaxBuf == 1
\* The longest array a caller builds element by element.
MaxArr == 2

-----------------------------------------------------------------------------
(* Integers as bit vectors *)

\* The literal n (0 <= n < 2^31) at width w.
NatBits(n, w) == [i \in 0..(w - 1) |-> IF i <= 30 THEN (n \div (2 ^ i)) % 2 ELSE 0]

\* The signed literal v (-2^31 < v < 2^31) at width w, two's complement.
IntBits(v, w) ==
    [i \in 0..(w - 1) |-> IF i <= 30 THEN (v \div (2 ^ i)) % 2
                                     ELSE IF v < 0 THEN 1 ELSE 0]

\* iN::MIN, iN::MAX and the all-ones pattern at width w.
MinBits(w) == [i \in 0..(w - 1) |-> IF i = w - 1 THEN 1 ELSE 0]
MaxBits(w) == [i \in 0..(w - 1) |-> IF i = w - 1 THEN 0 ELSE 1]
OnesBits(w) == [i \in 0..(w - 1) |-> 1]
\* 2^k + n at width w (n < 2^31, k > 30).
HighBits(k, n, w) == [i \in 0..(w - 1) |-> IF i = k THEN 1 ELSE NatBits(n, w)[i]]

Width(x) == Cardinality(DOMAIN x)

\* The eight bits of x from bit lo upwards, as a byte.
ByteAt(x, lo) ==
    x[lo] + 2 * x[lo + 1] + 4 * x[lo + 2] + 8 * x[lo + 3]
    + 16 * x[lo + 4] + 32 * x[lo + 5] + 64 * x[lo + 6] + 128 * x[lo + 7]

RECURSIVE SumBits(_, _)
SumBits(x, i) == IF i > 30 \/ i >= Width(x) THEN 0 ELSE x[i] * (2 ^ i) + SumBits(x, i + 1)

\* The number a usize below 2^31 stands for.
ToNat(x) == SumBits(x, 0)

\* x << k and x >> k (logical) at the width of x.
Shl(x, k) == [i \in DOMAIN x |-> IF i >= k THEN x[i - k] ELSE 0]
Shr(x, k) == [i \in DOMAIN x |-> IF i + k < Width(x) THEN x[i + k] ELSE 0]
Xor(x, y) == [i \in DOMAIN x |-> (x[i] + y[i]) % 2]

\* x as a narrower integer type: the low w bits.
AsWidth(x, w) == [i \in 0..(w - 1) |-> x[i]]

\* a <= b on unsigned values of one width.
LeqU(a, b) ==
    \/ a = b
    \/ \E i \in DOMAIN a :
          /\ a[i] < b[i]
          /\ \A j \in DOMAIN a : j > i => a[j] = b[j]

\* Bitwise or of two bytes.
BitOr8(a, b) ==
    LET bit(v, k) == (v \div (2 ^ k)) % 2
        or(k) == IF bit(a, k) = 1 \/ bit(b, k) = 1 THEN 2 ^ k ELSE 0
    IN  or(0) + or(1) + or(2) + or(3) + or(4) + or(5) + or(6) + or(7)

-----------------------------------------------------------------------------
(* The buffer: bytes::BufMut on a Vec<u8> *)

put_u8(buf, b) == Append(buf, b)

\* x.to_be_bytes(): most significant byte first.
to_be_bytes(x) == [j \in 1..(Width(x) \div 8) |-> ByteAt(x, Width(x) - 8 * j)]

put_i8(buf, x) == buf \o to_be_bytes(x)
\* Mutant: the bytes in little-endian order.
put_i16_le(buf, x) == buf \o [j \in 1..(Width(x) \div 8) |-> ByteAt(x, 8 * (j - 1))]
put_i16(buf, x) == buf \o to_be_bytes(x)
put_i32(buf, x) == buf \o to_be_bytes(x)
put_u32(buf, x) == buf \o to_be_bytes(x)
put_i64(buf, x) == buf \o to_be_bytes(x)

\* The result of an encode call: Ok(()) or Err(e), and the buffer it leaves.
\* calls lists the invocations of an array's element closure: the index of the
\* element passed and the buffer length at that moment.
Ok(buf) == [res |-> "Ok", buf |-> buf, calls |-> <<>>]
Err(e, buf) == [res |-> e, buf |-> buf, calls |-> <<>>]

-----------------------------------------------------------------------------
(* Slices *)

\* A slice literal, and vec![x; n] with n the usize len.
Lit(seq) == [len |-> NatBits(Len(seq), 64), head |-> seq]
Repeat(x, len) == [len |-> len, head |-> <<>>, fill |-> x]

ElemAt(xs, i) == IF i <= Len(xs.head) THEN xs.head[i] ELSE xs.fill

\* The elements of a slice in order (of a slice TLC can hold: len < 2^31).
Elems(xs) == [i \in 1..ToNat(xs.len) |-> ElemAt(xs, i)]

\* buffer.put(slice): every byte of the slice, in order.
put(buf, xs) == buf \o Elems(xs)

-----------------------------------------------------------------------------
(* Types.  A type is [k |-> kind], with of |-> the element or referent type *)
(* where it has one.                                                       *)

Prim(k) == [k |-> k]
RefTo(t) == [k |-> "ref", of |-> t]
SliceOf(t) == [k |-> "slice", of |-> t]
VecOf(t) == [k |-> "Vec", of |-> t]
OptionOf(t) == [k |-> "Option", of |-> t]

\* An owned String holds its bytes in a Vec<u8>; a Vec<T> holds a buffer of T.
Owned(xs) == [vec |-> xs]

\* The two closures the source hands to encode_as_array.
EncodeClosure(t) == [c |-> "encode", ty |-> t]
AsRefClosure(t) == [c |-> "as_ref", ty |-> t]

-----------------------------------------------------------------------------
(* try_usize_to_int!, and the encoders *)

\* v as u64, for a signed v of a narrower type: sign extension.
SignedAsU64(v) ==
    [i \in 0..63 |-> IF i < Width(v) THEN v[i] ELSE v[Width(v) - 1]]

\* Mutant: the bound taken from the unsigned type of the same width (uW::MAX).
try_usize_to_int_unsigned_max(value, w) ==
    LET maxv == [i \in 0..63 |-> IF i < w THEN 1 ELSE 0]
        x == value
    IN  IF LeqU(x, maxv)
        THEN [ok |-> TRUE, val |-> AsWidth(x, w)]
        ELSE [ok |-> FALSE, val |-> AsWidth(x, w)]

\* The macro at target type iW: [ok |-> FALSE] stands for its early return.
try_usize_to_int(value, w) ==
    LET maxv == MaxBits(w)
        x == value
    IN  IF LeqU(x, SignedAsU64(maxv))
        THEN [ok |-> TRUE, val |-> AsWidth(x, w)]
        ELSE [ok |-> FALSE, val |-> AsWidth(x, w)]

bool_encode(self, buf) == Ok(put_i8(buf, NatBits(IF self THEN 1 ELSE 0, 8)))
i8_encode(self, buf) == Ok(put_i8(buf, self))
i16_encode(self, buf) == Ok(put_i16(buf, self))
i32_encode(self, buf) == Ok(put_i32(buf, self))
u32_encode(self, buf) == Ok(put_u32(buf, self))
i64_encode(self, buf) == Ok(put_i64(buf, self))

\* Mutant: the sign term left out.
zigzag_encode_shift_only(from) == Shl(from, 1)
\* usize is 64 bits wide (from >> 63 does not build for a narrower one); both
\* shifts are those of the unsigned type.
zigzag_encode(from) == Xor(Shl(from, 1), Shr(from, 63))

MSB == 128

\* n >= 0x80 on a u64.
AtLeast0x80(n) == \E i \in 7..63 : n[i] = 1

RECURSIVE varint_loop(_, _)
varint_loop(n, buf) ==
    IF AtLeast0x80(n)
    THEN varint_loop(Shr(n, 7), put_u8(buf, BitOr8(MSB, ByteAt(n, 0))))
    ELSE put_u8(buf, ByteAt(n, 0))

usize_encode(self, buf) == Ok(varint_loop(zigzag_encode(self), buf))

\* Mutant: the length written as an i32.
str_encode_i32_prefix(self, buf) ==
    LET l == try_usize_to_int(self.len, 32)
    IN  IF ~l.ok THEN Err("EncodingError", buf)
        ELSE Ok(put(put_i32(buf, l.val), self))

str_encode(self, buf) ==
    LET l == try_usize_to_int(self.len, 16)
    IN  IF ~l.ok THEN Err("EncodingError", buf)
        ELSE Ok(put(put_i16(buf, l.val), self))

\* Mutant: the length counted one short.
String_encode_short_prefix(self, buf) ==
    LET l == try_usize_to_int(self.vec.len, 16)
    IN  IF ~l.ok THEN Err("EncodingError", buf)
        ELSE Ok(put(put_i16(buf, NatBits(IF ToNat(l.val) = 0 THEN 0 ELSE ToNat(l.val) - 1, 16)),
                    self.vec))

String_encode(self, buf) ==
    LET l == try_usize_to_int(self.vec.len, 16)
    IN  IF ~l.ok THEN Err("EncodingError", buf)
        ELSE Ok(put(put_i16(buf, l.val), self.vec))

bytes_encode(self, buf) ==
    LET l == try_usize_to_int(self.len, 32)
    IN  IF ~l.ok THEN Err("EncodingError", buf)
        ELSE Ok(put(put_i32(buf, l.val), self))

RECURSIVE encode(_, _, _)

\* x.as_ref() for T: AsRef<str>, T being String or &str.
as_ref(t, x) == IF t.k = "String" THEN x.vec ELSE x

\* f(buffer, x) for the closure f.
call_f(f, buf, x) ==
    IF f.c = "encode" THEN encode(f.ty, x, buf)
    ELSE str_encode(as_ref(f.ty, x), buf)

\* for x in xs { f(buffer, x)?; } Ok(()) from element k on.
RECURSIVE for_loop(_, _, _, _, _)
\* Mutant: the loop goes on after a failed element and reports the failure at the end.
for_loop_keeps_going(buf, xs, f, k, log) ==
    IF k > ToNat(xs.len) THEN [res |-> "Ok", buf |-> buf, calls |-> log]
    ELSE LET r == call_f(f, buf, ElemAt(xs, k))
             seen == Append(log, [idx |-> k, at |-> Len(buf)])
             rest == for_loop(r.buf, xs, f, k + 1, seen)
         IN  IF r.res # "Ok" THEN [rest EXCEPT !.res = r.res] ELSE rest

for_loop(buf, xs, f, k, log) ==
    IF k > ToNat(xs.len) THEN [res |-> "Ok", buf |-> buf, calls |-> log]
    ELSE LET r == call_f(f, buf, ElemAt(xs, k))
             seen == Append(log, [idx |-> k, at |-> Len(buf)])
         IN  IF r.res # "Ok" THEN [res |-> r.res, buf |-> r.buf, calls |-> seen]
             ELSE for_loop(r.buf, xs, f, k + 1, seen)

\* Mutant: the count written after the elements.
encode_as_array_count_last(buf, xs, f) ==
    LET l == try_usize_to_int(xs.len, 32)
        r == for_loop(buf, xs, f, 1, <<>>)
    IN  IF ~l.ok THEN Err("EncodingError", buf)
        ELSE IF r.res # "Ok" THEN r ELSE [r EXCEPT !.buf = put_i32(r.buf, l.val)]

\* Mutant: a failed array cleared from the buffer with buffer.clear().
encode_as_array_clear_on_error(buf, xs, f) ==
    LET l == try_usize_to_int(xs.len, 32)
        r == for_loop(put_i32(buf, l.val), xs, f, 1, <<>>)
    IN  IF ~l.ok THEN Err("EncodingError", buf)
        ELSE IF r.res # "Ok" THEN [r EXCEPT !.buf = <<>>] ELSE r

encode_as_array(buf, xs, f) ==
    LET l == try_usize_to_int(xs.len, 32)
    IN  IF ~l.ok THEN Err("EncodingError", buf)
        ELSE for_loop(put_i32(buf, l.val), xs, f, 1, <<>>)

slice_encode(t, self, buf) == encode_as_array(buf, self, EncodeClosure(t))

\* &orig as a &[T]: a Vec derefs to its buffer, a slice is one already.
deref(vec, orig) == IF vec THEN orig.vec ELSE orig

\* AsStrings(&[T]) with T: AsRef<str>.
AsStrings_encode(t, self, buf) == encode_as_array(buf, self, AsRefClosure(t))

ref_encode(t, self, buf) == encode(t, self, buf)

\* Option<T>: [some |-> FALSE] is None.
None == [some |-> FALSE]
Some(x) == [some |-> TRUE, val |-> x]

opt_bytes_ref_encode(self, buf) ==
    IF self.some THEN bytes_encode(self.val, buf) ELSE i32_encode(IntBits(-1, 32), buf)

\* Bytes derefs to [u8].
opt_Bytes_encode(self, buf) ==
    IF self.some THEN bytes_encode(self.val, buf) ELSE i32_encode(IntBits(-1, 32), buf)

opt_str_encode(self, buf) ==
    IF self.some THEN str_encode(self.val, buf) ELSE i32_encode(IntBits(-1, 32), buf)

opt_String_encode(self, buf) ==
    IF self.some THEN String_encode(self.val, buf) ELSE i16_encode(IntBits(-1, 16), buf)

\* T::encode by the type of self.
encode(t, self, buf) ==
    CASE t.k = "ref" -> ref_encode(t.of, self, buf)
      [] t.k = "bool" -> bool_encode(self, buf)
      [] t.k = "i8" -> i8_encode(self, buf)
      [] t.k = "i16" -> i16_encode(self, buf)
      [] t.k = "i32" -> i32_encode(self, buf)
      [] t.k = "u32" -> u32_encode(self, buf)
      [] t.k = "i64" -> i64_encode(self, buf)
      [] t.k = "usize" -> usize_encode(self, buf)
      [] t.k = "str" -> str_encode(self, buf)
      [] t.k = "String" -> String_encode(self, buf)
      [] t.k = "bytes" -> bytes_encode(self, buf)
      [] t.k = "slice" -> slice_encode(t.of, self, buf)

-----------------------------------------------------------------------------
(* The values callers encode *)

BoolVals == {TRUE, FALSE}
I8Vals == {IntBits(5, 8), IntBits(-1, 8), MinBits(8), MaxBits(8)}
I16Vals == {IntBits(5, 16), IntBits(-1, 16), IntBits(258, 16), MinBits(16), MaxBits(16)}
I32Vals == {IntBits(5, 32), IntBits(-1, 32), IntBits(16909060, 32), MinBits(32), MaxBits(32)}
U32Vals == {NatBits(5, 32), NatBits(16909060, 32), MinBits(32), OnesBits(32)}
I64Vals == {IntBits(5, 64), IntBits(-1, 64), HighBits(40, 16909060, 64),
            MinBits(64), MaxBits(64)}
UsizeVals ==
    {NatBits(n, 64) : n \in {0, 1, 11, 63, 64, 127, 128, 260, 16383, 16384, 2147483647}}
    \cup {MaxBits(64), MinBits(64), HighBits(63, 1, 64), HighBits(63, 130, 64),
          HighBits(62, 0, 64), OnesBits(64)}

\* "", "test", "abc", "defg" and the string of test_string_too_long.
Test == <<116, 101, 115, 116>>
Abc == <<97, 98, 99>>
Defg == <<100, 101, 102, 103>>
I16_MAX == 32767
I32_MAX == 2147483647
TooLongStr == Repeat(97, NatBits(I16_MAX + 1, 64))
\* The longest string that fits.
LongestStr == Repeat(97, NatBits(I16_MAX, 64))
\* i32::MAX + 1 as a usize.
TooMany == HighBits(31, 0, 64)

StrVals == {Lit(<<>>), Lit(Test), Lit(Abc), LongestStr, TooLongStr, Repeat(98, OnesBits(64))}
StringVals == {Owned(x) : x \in StrVals}
BytesVals == {Lit(<<>>), Lit(<<1, 2, 3>>), Lit(<<255, 0>>),
              Repeat(7, TooMany), Repeat(0, HighBits(40, 5, 64))}

\* Every slice of at most MaxArr elements of S, and slices too long to count in an i32.
SlicesOf(S) ==
    {Lit(q) : q \in UNION {[1..m -> S] : m \in 0..MaxArr}}
    \cup {Repeat(CHOOSE x \in S : TRUE, TooMany)}

StrElems == {Lit(Abc), Lit(Defg), TooLongStr}
StringElems == {Owned(x) : x \in StrElems}
I32Elems == {IntBits(5, 32), IntBits(-1, 32)}
NestedElems == {Lit(<<>>), Lit(<<Lit(Abc)>>), Lit(<<Lit(Defg), TooLongStr, Lit(Abc)>>)}

StrRef == RefTo(Prim("str"))

I32Slices == SlicesOf(I32Elems)
I16Slices == SlicesOf({IntBits(5, 16), IntBits(258, 16)})
StrSlices == SlicesOf(StrElems)
StringSlices == SlicesOf(StringElems)
NestedSlices == SlicesOf(NestedElems)

-----------------------------------------------------------------------------
(* The state machine: a caller appending fields to one buffer *)

Init ==
    /\ buffer = <<>>
    /\ before = <<>>
    /\ op = "new"
    /\ arg = (Prim("-") :> 0)
    /\ result = "Ok"
    /\ calls = <<>>

\* One call of an encode operation o on the value v of type t, r being what it returns.
\* arg holds the value under its type.
\* The caller builds one message: it stops at the first error, and once the
\* buffer holds more than MaxBuf bytes.  The encoders keep no state of their
\* own, so a call made after an error does what the same call does on the same
\* buffer after a success.
Call(o, t, v, r) ==
    /\ result = "Ok"
    /\ Len(buffer) <= MaxBuf
    /\ op' = o
    /\ arg' = (t :> v)
    /\ before' = buffer
    /\ buffer' = r.buf
    /\ result' = r.res
    /\ calls' = r.calls

EncodeBool == \E v \in BoolVals : Call("bool", Prim("bool"), v, bool_encode(v, buffer))
EncodeI8 == \E v \in I8Vals : Call("i8", Prim("i8"), v, i8_encode(v, buffer))
EncodeI16 == \E v \in I16Vals : Call("i16", Prim("i16"), v, i16_encode(v, buffer))
EncodeI32 == \E v \in I32Vals : Call("i32", Prim("i32"), v, i32_encode(v, buffer))
EncodeU32 == \E v \in U32Vals : Call("u32", Prim("u32"), v, u32_encode(v, buffer))
EncodeI64 == \E v \in I64Vals : Call("i64", Prim("i64"), v, i64_encode(v, buffer))
EncodeUsize == \E v \in UsizeVals : Call("usize", Prim("usize"), v, usize_encode(v, buffer))
EncodeStr == \E v \in StrVals : Call("str", Prim("str"), v, str_encode(v, buffer))
EncodeString ==
    \E v \in StringVals : Call("String", Prim("String"), v, String_encode(v, buffer))
EncodeBytes == \E v \in BytesVals : Call("bytes", Prim("bytes"), v, bytes_encode(v, buffer))

\* (&v).encode(buffer) through the impl for &T.
EncodeRef ==
    \/ \E v \in I32Elems :
          Call("ref", RefTo(Prim("i32")), v, ref_encode(Prim("i32"), v, buffer))
    \/ \E v \in StrElems :
          Call("ref", RefTo(StrRef), v, ref_encode(StrRef, v, buffer))

\* xs.encode(buffer) for a slice [V] with V: ToByte.
EncodeSlice ==
    \/ \E xs \in I32Slices :
          Call("slice", SliceOf(Prim("i32")), xs, slice_encode(Prim("i32"), xs, buffer))
    \/ \E xs \in StrSlices :
          Call("slice", SliceOf(StrRef), xs, slice_encode(StrRef, xs, buffer))
    \/ \E xs \in StringSlices :
          Call("slice", SliceOf(Prim("String")), xs, slice_encode(Prim("String"), xs, buffer))
    \/ \E xs \in NestedSlices :
          Call("slice", SliceOf(RefTo(SliceOf(StrRef))), xs,
               slice_encode(RefTo(SliceOf(StrRef)), xs, buffer))

\* AsStrings(&orig).encode(buffer): orig a slice or a Vec, of &str or of String.
\* &Vec<T> coerces to &[T], the Vec's buffer.
EncodeAsStrings ==
    \E owned \in BOOLEAN, vec \in BOOLEAN :
      \E ys \in IF owned THEN StringSlices ELSE StrSlices :
        LET t == IF owned THEN Prim("String") ELSE StrRef
            orig == IF vec THEN Owned(ys) ELSE ys
        IN  Call("AsStrings", IF vec THEN VecOf(t) ELSE SliceOf(t), orig,
                 AsStrings_encode(t, deref(vec, orig), buffer))

\* encode_as_array(buffer, xs, f) called directly with a closure of the source.
EncodeAsArray ==
    \/ \E xs \in I16Slices :
          Call("encode_as_array", SliceOf(Prim("i16")), xs,
               encode_as_array(buffer, xs, EncodeClosure(Prim("i16"))))
    \/ \E xs \in NestedSlices :
          Call("encode_as_array", SliceOf(RefTo(SliceOf(StrRef))), xs,
               encode_as_array(buffer, xs, EncodeClosure(RefTo(SliceOf(StrRef)))))

OptOf(S) == {None} \cup {Some(x) : x \in S}
OptBytesVals == OptOf({Lit(<<1, 2, 3>>), Repeat(7, TooMany)})
OptStrVals == OptOf({Lit(Test), TooLongStr})
OptStringVals == OptOf({Owned(Lit(Test)), Owned(TooLongStr)})

EncodeOptBytesRef ==
    \E v \in OptBytesVals :
        Call("Option<&[u8]>", OptionOf(RefTo(Prim("bytes"))), v, opt_bytes_ref_encode(v, buffer))
EncodeOptBytes ==
    \E v \in OptBytesVals :
        Call("Option<Bytes>", OptionOf(Prim("Bytes")), v, opt_Bytes_encode(v, buffer))
EncodeOptStr ==
    \E v \in OptStrVals :
        Call("Option<&str>", OptionOf(StrRef), v, opt_str_encode(v, buffer))
EncodeOptString ==
    \E v \in OptStringVals :
        Call("Option<String>", OptionOf(Prim("String")), v, opt_String_encode(v, buffer))

Next ==
    \/ EncodeBool
    \/ EncodeI8
    \/ EncodeI16
    \/ EncodeI32
    \/ EncodeU32
    \/ EncodeI64
    \/ EncodeUsize
    \/ EncodeStr
    \/ EncodeString
    \/ EncodeBytes
    \/ EncodeRef
    \/ EncodeSlice
    \/ EncodeAsStrings
    \/ EncodeAsArray
    \/ EncodeOptBytesRef
    \/ EncodeOptBytes
    \/ EncodeOptStr
    \/ EncodeOptString

Spec == Init /\ [][Next]_vars

-----------------------------------------------------------------------------
(* What the claims speak of *)

IsPrefix(p, q) == Len(p) <= Len(q) /\ SubSeq(q, 1, Len(p)) = p

\* The type and the value the last call encoded.
ArgTy == CHOOSE t \in DOMAIN arg : TRUE
ArgVal == arg[ArgTy]

\* The bytes the last call appended.
Appended == SubSeq(buffer, Len(before) + 1, Len(buffer))

\* len > max, for a usize len and a number max.
Exceeds(len, max) == (\E i \in 31..63 : len[i] = 1) \/ ToNat(len) > max

\* The number n < 2^31 in two and in four big-endian bytes.
BE16(n) == <<n \div 256, n % 256>>
BE32(n) == <<n \div 16777216, (n \div 65536) % 256, (n \div 256) % 256, n % 256>>

\* Bit k of the byte b.
BitOf(b, k) == (b \div (2 ^ k)) % 2

\* The slice the last call encoded, when it encoded a string, a byte array or an array.
ArgSlice ==
    CASE op = "String" -> ArgVal.vec
      [] op = "AsStrings" /\ ArgTy.k = "Vec" -> ArgVal.vec
      [] OTHER -> ArgVal

IsStringOp == op \in {"str", "String"}
IsArrayOp == op \in {"slice", "AsStrings", "encode_as_array"}

\* The element closure of the last array call, and what it does on each element
\* alone, on an empty buffer.
ArgClosure == IF op = "AsStrings" THEN AsRefClosure(ArgTy.of) ELSE EncodeClosure(ArgTy.of)
ArgCount == ToNat(ArgSlice.len)
Alone == [i \in 1..ArgCount |-> call_f(ArgClosure, <<>>, ElemAt(ArgSlice, i))]

\* The bytes elements lo..hi write, each alone, one after the other.
RECURSIVE AloneFrom(_, _, _)
AloneFrom(al, lo, hi) == IF lo > hi THEN <<>> ELSE al[lo].buf \o AloneFrom(al, lo + 1, hi)

Failing(al) == {k \in DOMAIN al : al[k].res # "Ok"}
FirstFailing(al) == CHOOSE k \in Failing(al) : \A j \in Failing(al) : k <= j

\* The closure was invoked on elements 1..k, once each and in order, each time
\* with the count and the elements before it already in the buffer.
InvokedUpTo(al, k) ==
    calls = [i \in 1..k |-> [idx |-> i, at |-> Len(before) + 4 + Len(AloneFrom(al, 1, i - 1))]]

-----------------------------------------------------------------------------

C2_AbsentSentinelWidth ==
    /\ (op \in {"Option<&str>", "Option<String>"} /\ ~ArgVal.some)
          => (result = "Ok" /\ buffer = before \o <<255, 255>>)
    /\ (op \in {"Option<&[u8]>", "Option<Bytes>"} /\ ~ArgVal.some)
          => (result = "Ok" /\ buffer = before \o <<255, 255, 255, 255>>)

\* C3: a str or String of at most i16::MAX bytes and a [u8] of at most i32::MAX
\* bytes encode to a big-endian length prefix (2 bytes, 4 bytes) that is not
\* negative and equals the number of payload bytes, then the payload in order.
C3_PrefixIsPayloadLength ==
    LET app == Appended
        n == ArgCount
        xs == ArgSlice
    IN
    /\ (IsStringOp /\ ~Exceeds(ArgSlice.len, I16_MAX))
          => /\ result = "Ok"
             /\ IsPrefix(before, buffer)
             /\ Len(app) = 2 + n
             /\ app[1] < 128
             /\ SubSeq(app, 1, 2) = BE16(Len(app) - 2)
             /\ SubSeq(app, 3, Len(app)) = [i \in 1..n |-> ElemAt(xs, i)]
    /\ (op = "bytes" /\ ~Exceeds(ArgSlice.len, I32_MAX))
          => /\ result = "Ok"
             /\ IsPrefix(before, buffer)
             /\ Len(app) = 4 + n
             /\ app[1] < 128
             /\ SubSeq(app, 1, 4) = BE32(Len(app) - 4)
             /\ SubSeq(app, 5, Len(app)) = [i \in 1..n |-> ElemAt(xs, i)]
    /\ (op = "String" /\ ArgVal = Owned(Lit(Test)))
          => app = <<0, 4, 116, 101, 115, 116>>
    /\ (op = "bytes" /\ ArgVal = Lit(<<1, 2, 3>>))
          => app = <<0, 0, 0, 3, 1, 2, 3>>

C3_Witness ==
    /\ op = "str"
    /\ ArgVal = LongestStr
    /\ before # <<>>
    /\ Len(buffer) = Len(before) + 2 + I16_MAX

\* ZigZag of v taken as a signed 64-bit value: (v << 1) ^ (v >> 63), the right
\* shift arithmetic, so that it yields 64 copies of the sign bit.
SignedZigZag(v) == Xor(Shl(v, 1), [i \in 0..63 |-> v[63]])

\* The little-endian base-128 rendering of the u64 n: 7 bits a byte, the high bit
\* set on every byte but the last.
TopBit(n) == IF \A i \in 0..63 : n[i] = 0 THEN 0
             ELSE CHOOSE i \in 0..63 : n[i] = 1 /\ \A j \in 0..63 : j > i => n[j] = 0
Group7(n, g) ==
    LET b(k) == IF 7 * g + k <= 63 THEN n[7 * g + k] * (2 ^ k) ELSE 0
    IN  b(0) + b(1) + b(2) + b(3) + b(4) + b(5) + b(6)
Base128(n) ==
    LET m == (TopBit(n) \div 7) + 1
    IN  [j \in 1..m |-> Group7(n, j - 1) + IF j < m THEN 128 ELSE 0]

\* C4: encoding a usize v never fails and appends the base-128 rendering of the
\* ZigZag mapping of v as a signed value; 11 gives [22], 260 gives [136, 4] and
\* 2^63 - 1 gives [254, 255, 255, 255, 255, 255, 255, 255, 255, 1].
C4_VarintIsSignedZigZag ==
    op = "usize"
    => /\ result = "Ok"
       /\ buffer = before \o Base128(SignedZigZag(ArgVal))
       /\ ArgVal = NatBits(11, 64) => Appended = <<22>>
       /\ ArgVal = NatBits(260, 64) => Appended = <<136, 4>>
       /\ ArgVal = MaxBits(64)
             => Appended = <<254, 255, 255, 255, 255, 255, 255, 255, 255, 1>>

\* C5: on a slice of n <= i32::MAX elements whose element closure succeeds on
\* every element, the array encoders append the 4-byte big-endian count n and
\* then each element's encoding in order, the closure invoked once per element,
\* in order, after the count.
C5_CountThenElementsInOrder ==
    (IsArrayOp /\ ~Exceeds(ArgSlice.len, I32_MAX))
    => LET al == Alone
       IN  Failing(al) = {}
           => /\ result = "Ok"
              /\ buffer = before \o BE32(ArgCount) \o AloneFrom(al, 1, ArgCount)
              /\ InvokedUpTo(al, ArgCount)

C5_Witness ==
    /\ op = "encode_as_array"
    /\ ArgTy = SliceOf(Prim("i16"))
    /\ ArgVal = Lit(<<IntBits(258, 16), IntBits(5, 16)>>)
    /\ before # <<>>
    /\ result = "Ok"
    /\ Appended = <<0, 0, 0, 2, 1, 2, 0, 5>>
    /\ Len(calls) = 2

\* C6: when the element closure fails on element k, the array encoders return
\* that error, have invoked the closure on elements 1..k only, and leave in the
\* buffer the old contents, the count of the whole slice, the encodings of the
\* elements before k and what the closure wrote for element k before failing.
C6_FailsAtFirstErrorNoRollback ==
    (IsArrayOp /\ ~Exceeds(ArgSlice.len, I32_MAX))
    => LET al == Alone
           k == FirstFailing(al)
       IN  Failing(al) # {}
           => /\ result = al[k].res
              /\ result # "Ok"
              /\ InvokedUpTo(al, k)
              /\ buffer = before \o BE32(ArgCount) \o AloneFrom(al, 1, k - 1) \o al[k].buf

\* A slice of slices whose second element fails after its own count and first string.
C6_Witness ==
    /\ op = "slice"
    /\ ArgTy.of.k = "ref"
    /\ before # <<>>
    /\ result = "EncodingError"
    /\ Len(calls) = 2
    /\ ArgCount = 2
    /\ Appended = <<0, 0, 0, 2>> \o <<0, 0, 0, 1, 0, 3, 97, 98, 99>>
                     \o <<0, 0, 0, 3, 0, 4, 100, 101, 102, 103>>

\* The strings of the last AsStrings call, borrowed, as a plain slice.
Borrowed(x) == IF ArgTy.of.k = "String" THEN x.vec ELSE x
ArgStrs == [i \in 1..ArgCount |-> Borrowed(ElemAt(ArgSlice, i))]

\* The same strings as a slice or a Vec of &str or of String.
AsSequenceOf(owned, vec) ==
    LET ys == Lit([i \in 1..ArgCount |-> IF owned THEN Owned(ArgStrs[i]) ELSE ArgStrs[i]])
    IN  IF vec THEN Owned(ys) ELSE ys

RECURSIVE StringsLayout(_, _)
StringsLayout(strs, i) ==
    IF i > Len(strs) THEN <<>>
    ELSE BE16(ToNat(strs[i].len)) \o Elems(strs[i]) \o StringsLayout(strs, i + 1)

\* C7: AsStrings gives the same bytes and the same outcome for borrowed and
\* owned strings of equal contents and for a slice and a Vec of them; when it
\* succeeds the bytes are the 4-byte count, then each string with its 2-byte length.
C7_AsStringsOwnedOrBorrowed ==
    (op = "AsStrings" /\ ~Exceeds(ArgSlice.len, I32_MAX))
    => /\ \A owned \in BOOLEAN, vec \in BOOLEAN :
             LET t == IF owned THEN Prim("String") ELSE StrRef
                 r == AsStrings_encode(t, deref(vec, AsSequenceOf(owned, vec)), before)
             IN  r.res = result /\ r.buf = buffer
       /\ (\A i \in 1..ArgCount : ~Exceeds(ArgStrs[i].len, I16_MAX))
             => /\ result = "Ok"
                /\ buffer = before \o BE32(ArgCount) \o StringsLayout(ArgStrs, 1)

C7_Witness ==
    /\ op = "AsStrings"
    /\ ArgTy = VecOf(Prim("String"))
    /\ before # <<>>
    /\ result = "Ok"
    /\ Appended = <<0, 0, 0, 2, 0, 3, 97, 98, 99, 0, 4, 100, 101, 102, 103>>

\* The width in bits of the fixed-width type of the last call.
FixedWidth ==
    CASE op = "i8" -> 8 [] op = "i16" -> 16 [] op = "i32" -> 32
      [] op = "u32" -> 32 [] op = "i64" -> 64

\* C8: a fixed-width integer always encodes, to width/8 bytes, most significant
\* byte first (5 gives [5], [0,5], [0,0,0,5], [0,0,0,0,0,0,0,5]); a bool
\* encodes to the one byte 1 or 0.
C8_FixedWidthBigEndian ==
    /\ op \in {"i8", "i16", "i32", "u32", "i64"}
          => LET w == FixedWidth
                 app == Appended
             IN  /\ result = "Ok"
                 /\ IsPrefix(before, buffer)
                 /\ Len(app) = w \div 8
                 /\ \A i \in 0..(w - 1) :
                       BitOf(app[(w \div 8) - (i \div 8)], i % 8) = ArgVal[i]
                 /\ ToNat(ArgVal) = 5 /\ (\A i \in 31..(w - 1) : ArgVal[i] = 0)
                       => app = [j \in 1..(w \div 8) |-> IF j = w \div 8 THEN 5 ELSE 0]
    /\ op = "bool"
          => /\ result = "Ok"
             /\ buffer = before \o <<IF ArgVal THEN 1 ELSE 0>>

C8_Witness ==
    /\ op = "i64"
    /\ ArgVal = HighBits(40, 16909060, 64)
    /\ before # <<>>
    /\ Appended = <<0, 0, 1, 0, 1, 2, 3, 4>>

\* C9: every call, failed or not, leaves what the buffer held before it as a
\* prefix of what it holds after.
C9_AppendOnly == [][IsPrefix(buffer, buffer')]_vars

\* A failed array call that left bytes after two fields written before it.
C9_Witness ==
    /\ result = "EncodingError"
    /\ Len(before) >= 1
    /\ Len(buffer) > Len(before)
    /\ IsPrefix(before, buffer)

\* The usize whose varint the bytes are: the 7-bit groups put together, then
\* the mapping of zigzag_encode undone.
Recover(bytes) ==
    LET n == [i \in 0..63 |-> IF (i \div 7) + 1 <= Len(bytes)
                              THEN BitOf(bytes[(i \div 7) + 1], i % 7) ELSE 0]
    IN  [i \in 0..63 |-> n[(i + 1) % 64]]

\* C10: the varint of a usize is 1 to 10 bytes long, only its last byte has the
\* high bit clear, the value can be recovered from it, and it is neither equal
\* to nor a prefix of the varint of any other value, the ones with the top bit
\* set included.
C10_VarintInjectivePrefixFree ==
    op = "usize"
    => LET app == Appended
       IN  /\ Len(app) \in 1..10
           /\ \A j \in 1..Len(app) : (app[j] >= 128) <=> (j < Len(app))
           /\ Recover(app) = ArgVal
           /\ \A v \in UsizeVals \ {ArgVal} :
                 LET other == usize_encode(v, <<>>).buf
                 IN  ~IsPrefix(app, other) /\ ~IsPrefix(other, app)

C10_Witness ==
    /\ op = "usize"
    /\ ArgVal = HighBits(63, 130, 64)
    /\ before # <<>>
    /\ Appended = <<133, 2>>

====
